---- MODULE Spec2Model ----
(***************************************************************************)
(* A model of rpi_burner: the disk inventory (disk_detector.py), the image *)
(* writer (disk_writer.py), the cloud-init support (cloud_init.py) and the *)
(* burn command (cli.py).                                                  *)
(*                                                                         *)
(* Text that the code takes apart (device paths, the confirmation answer)  *)
(* is a sequence of tokens, so that prefix tests, replacement and          *)
(* lower-casing are computed rather than assumed.  A device identifier is  *)
(* <<"disk", "4">>, the path built by f"/dev/{id}" is <<"/dev/">> \o id,   *)
(* and the empty string is <<>>.  A mount path is the sequence of its      *)
(* parts as pathlib sees them: <<"/", "Volumes", "bootfs">>.               *)
(***************************************************************************)
EXTENDS Integers, Sequences, FiniteSets, TLC

VARIABLES
    query,      \* what the next OS query (subprocess.run) of the call under test yields
    ret,        \* the outcome of the call under test: a value or the exception raised
    fs,         \* the boot partition's mount directory: whether it exists, and its files
    pc,         \* the burn command's position
    opts,       \* the burn command's arguments
    disk,       \* the Disk select_disk returned to burn
    cmds,       \* the OS commands burn has run so far, in order, with their exit codes
    answered    \* what the user typed at the confirmation prompt (<<>> before the prompt)

vars == <<query, ret, fs, pc, opts, disk, cmds, answered>>

----------------------------------------------------------------------------
(* Bounds of the model.                                                    *)

MaxDisks == 2       \* entries in one "diskutil list" response
MaxParts == 2       \* partitions of one entry
MaxItems == 3       \* key: value lines of one configuration file
MaxCmds  == 2       \* OS commands the image writer's calls run in one behaviour

----------------------------------------------------------------------------
(* Python values.                                                          *)

Returns(v) == [raised |-> "None", value |-> v]
Raises(e)  == [raised |-> e, value |-> <<>>]
NotCalled  == [raised |-> "NotCalled", value |-> <<>>]

\* subprocess.run(..., check=True): a non-zero exit raises CalledProcessError.
\* plistlib.loads: text that is no property list raises InvalidFileException.
Unparseable == [parseable |-> FALSE, doc |-> <<>>]
Plist(d)    == [parseable |-> TRUE, doc |-> d]

SeqsUpTo(S, n) == UNION {[1..k -> S] : k \in 0..n}

\* str(n) for the numbers that number disks and partitions.
Numeral(n) == <<"1", "2", "3", "4", "5", "6", "7", "8", "9">>[n]

\* Path(p).name: the last part, and "" for the root or the empty path.
PathName(p) == IF Len(p) <= 1 THEN "" ELSE p[Len(p)]

----------------------------------------------------------------------------
(* models.py                                                               *)

Disk(device_path, volume_name, size_bytes, file_system, is_removable, is_ejectable) ==
    [device_path  |-> device_path,  volume_name  |-> volume_name,
     size_bytes   |-> size_bytes,   file_system  |-> file_system,
     is_removable |-> is_removable, is_ejectable |-> is_ejectable]

----------------------------------------------------------------------------
(* disk_detector.py                                                        *)

\* dict.get with its default: an absent key reads as the default, so a
\* dictionary is modelled with every key present and "absent" as the default.
NoDisk == [DeviceIdentifier |-> <<>>, Content |-> "", Size |-> 0,
           Removable |-> FALSE, Ejectable |-> FALSE, empty |-> TRUE]

\* The partition loop of list_external_disks (lines 45-51), from partition i
\* on, with the loop's two variables.
RECURSIVE scan_partitions(_, _, _, _)
scan_partitions(partitions, i, volume_name, mount_point) ==
    IF i > Len(partitions) THEN [volume_name |-> volume_name, mount_point |-> mount_point]
    ELSE LET vol_name   == partitions[i].VolumeName
             part_mount == partitions[i].MountPoint
         IN  scan_partitions(partitions, i + 1,
                 IF vol_name # "" THEN vol_name ELSE volume_name,
                 IF part_mount # <<>> THEN part_mount ELSE mount_point)

\* The label the loop and the fallback after it (lines 42-54) resolve.
resolve_volume_name(partitions) ==
    LET s == scan_partitions(partitions, 1, "", <<>>)
    IN  IF s.volume_name = "" /\ s.mount_point # <<>>
        THEN PathName(s.mount_point) ELSE s.volume_name

\* The inclusion rule without its last operand: a disk that reports neither
\* flag and has only unmounted partitions is dropped.
is_listed_without_partitions(removable, ejectable, mount_point, partitions) ==
    removable \/ ejectable \/ mount_point # <<>>

\* if removable or ejectable or mount_point or partitions (line 58)
is_listed(removable, ejectable, mount_point, partitions) ==
    removable \/ ejectable \/ mount_point # <<>> \/ partitions # <<>>

\* The body of the loop over AllDisksAndPartitions (lines 26-66): the disks
\* list after entry i and the ones after it have been handled.
RECURSIVE collect_disks(_, _, _)
collect_disks(all, i, disks) ==
    IF i > Len(all) THEN disks
    ELSE LET disk_info  == all[i]
             disk_entry == IF disk_info.Disk.empty THEN disk_info ELSE disk_info.Disk
             device_identifier == disk_entry.DeviceIdentifier
             partitions == disk_info.Partitions
             s == scan_partitions(partitions, 1, "", <<>>)
         IN  IF device_identifier = <<>> THEN collect_disks(all, i + 1, disks)
             ELSE IF is_listed(disk_entry.Removable, disk_entry.Ejectable,
                               s.mount_point, partitions)
             THEN collect_disks(all, i + 1, Append(disks,
                     Disk(<<"/dev/">> \o device_identifier,
                          resolve_volume_name(partitions),
                          disk_entry.Size,
                          IF disk_entry.Content # "" THEN disk_entry.Content ELSE "Unknown",
                          disk_entry.Removable, disk_entry.Ejectable)))
             ELSE collect_disks(all, i + 1, disks)

list_external_disks(run) ==
    IF run.returncode # 0 THEN Raises("CalledProcessError")
    ELSE IF ~run.stdout.parseable THEN Raises("InvalidFileException")
    ELSE Returns(collect_disks(run.stdout.doc.AllDisksAndPartitions, 1, <<>>))

\* get_disk_info without the "Untitled" default: the label as diskutil gave it.
get_disk_info_without_default(run) ==
    IF run.returncode # 0 THEN Raises("CalledProcessError")
    ELSE IF ~run.stdout.parseable THEN Raises("InvalidFileException")
    ELSE LET plist_data == run.stdout.doc
         IN  Returns(Disk(<<"/dev/">> \o plist_data.DeviceIdentifier,
                          plist_data.VolumeName,
                          plist_data.Size,
                          IF plist_data.Content # "" THEN plist_data.Content ELSE "Unknown",
                          plist_data.Removable, plist_data.Ejectable))

get_disk_info(run) ==
    IF run.returncode # 0 THEN Raises("CalledProcessError")
    ELSE IF ~run.stdout.parseable THEN Raises("InvalidFileException")
    ELSE LET plist_data == run.stdout.doc
         IN  Returns(Disk(<<"/dev/">> \o plist_data.DeviceIdentifier,
                          IF plist_data.VolumeName # "" THEN plist_data.VolumeName
                                                        ELSE "Untitled",
                          plist_data.Size,
                          IF plist_data.Content # "" THEN plist_data.Content ELSE "Unknown",
                          plist_data.Removable, plist_data.Ejectable))

----------------------------------------------------------------------------
(* disk_writer.py                                                          *)

\* One OS command as subprocess.run saw it: the program, its device or
\* partition argument, and the exit code it ended with.
Command(program, arg, returncode) ==
    [program |-> program, arg |-> arg, returncode |-> returncode]

\* What a call did: its outcome and the OS commands it ran, in order.
Did(outcome, commands) == [ret |-> outcome, cmds |-> commands]

unmount_disk(device_path, returncode) ==
    Did(IF returncode # 0 THEN Raises("DiskWriterError") ELSE Returns(<<>>),
        <<Command("diskutil unmountDisk", device_path, returncode)>>)

\* str.replace("/dev/disk", "/dev/rdisk") on the path from token i on.
RECURSIVE replace_disk_by_rdisk(_, _)
replace_disk_by_rdisk(path, i) ==
    IF i > Len(path) THEN <<>>
    ELSE IF i < Len(path) /\ path[i] = "/dev/" /\ path[i + 1] = "disk"
    THEN <<"/dev/", "r", "disk">> \o replace_disk_by_rdisk(path, i + 2)
    ELSE <<path[i]>> \o replace_disk_by_rdisk(path, i + 1)

get_raw_device(device_path) ==
    IF Len(device_path) >= 2 /\ device_path[1] = "/dev/" /\ device_path[2] = "r"
    THEN device_path
    ELSE replace_disk_by_rdisk(device_path, 1)

\* burn_image without the existence check: dd is run on whatever path it got.
burn_image_without_check(image_exists, device_path, returncode) ==
    Did(IF returncode # 0 THEN Raises("DiskWriterError") ELSE Returns(<<>>),
        <<Command("dd", get_raw_device(device_path), returncode)>>)

\* image_exists: Path(image_path).exists(); returncode: how dd ends if it is run.
burn_image(image_exists, device_path, returncode) ==
    IF ~image_exists THEN Did(Raises("DiskWriterError"), <<>>)
    ELSE Did(IF returncode # 0 THEN Raises("DiskWriterError") ELSE Returns(<<>>),
             <<Command("dd", get_raw_device(device_path), returncode)>>)

eject_disk(device_path, returncode) ==
    Did(IF returncode # 0 THEN Raises("DiskWriterError") ELSE Returns(<<>>),
        <<Command("diskutil eject", device_path, returncode)>>)

----------------------------------------------------------------------------
(* cloud_init.py                                                           *)

FatFamily == {"DOS", "FAT32", "msdos", "Windows_FAT_32"}

\* The inner loop of get_boot_partition (lines 31-34) from partition j on:
\* the path of the first partition with a FAT-family content, or <<>>.
RECURSIVE first_fat_partition(_, _)
first_fat_partition(partitions, j) ==
    IF j > Len(partitions) THEN <<>>
    ELSE IF partitions[j].Content \in FatFamily
    THEN <<"/dev/">> \o partitions[j].DeviceIdentifier
    ELSE first_fat_partition(partitions, j + 1)

\* The outer loop (lines 29-34) from entry i on.
RECURSIVE first_fat_of_disks(_, _)
first_fat_of_disks(all_disks, i) ==
    IF i > Len(all_disks) THEN <<>>
    ELSE LET found == first_fat_partition(all_disks[i].Partitions, 1)
         IN  IF found # <<>> THEN found ELSE first_fat_of_disks(all_disks, i + 1)

\* get_boot_partition without the try around the query: a failed query raises.
get_boot_partition_without_try(run) ==
    IF run.returncode # 0 THEN Raises("CalledProcessError")
    ELSE IF ~run.stdout.parseable THEN Raises("InvalidFileException")
    ELSE Returns(first_fat_of_disks(run.stdout.doc.AllDisksAndPartitions, 1))

\* None is <<>>: no partition path is empty.
get_boot_partition(run) ==
    IF run.returncode # 0 THEN Returns(<<>>)
    ELSE IF ~run.stdout.parseable THEN Raises("InvalidFileException")
    ELSE Returns(first_fat_of_disks(run.stdout.doc.AllDisksAndPartitions, 1))

\* mount_returncode: how "diskutil mount" ends, a failure being swallowed;
\* info_run: the "diskutil info -plist" run that follows it.
mount_partition(partition_path, mount_returncode, info_run) ==
    Did(IF info_run.returncode # 0 THEN Raises("CloudInitError")
        ELSE IF ~info_run.stdout.parseable THEN Raises("InvalidFileException")
        ELSE IF info_run.stdout.doc.MountPoint # <<>>
        THEN Returns(info_run.stdout.doc.MountPoint)
        ELSE Raises("CloudInitError"),
        <<Command("diskutil mount", partition_path, mount_returncode),
          Command("diskutil info", partition_path, info_run.returncode)>>)

\* A file that is not there.
Absent == [present |-> FALSE, text |-> <<>>]
File(text) == [present |-> TRUE, text |-> text]
\* What a write that failed after open(..., "w") truncated the file leaves.
Partial == <<"partial">>

\* Path.write_text: "ok"; "open_fails" (OSError before the file is touched);
\* "write_fails" (OSError after the file was created or truncated).
write_text(dir, name, data, io) ==
    CASE io = "ok"          -> [dir EXCEPT !.files[name] = File(data)]
      [] io = "open_fails"  -> dir
      [] io = "write_fails" -> [dir EXCEPT !.files[name] = File(Partial)]

\* What a call on the mount directory did: its outcome, the directory after
\* it, and the files it opened for writing, in order.
Wrote(outcome, dir, opened) == [ret |-> outcome, fs |-> dir, opened |-> opened]

\* write_cloud_init_files without "if meta_data": meta-data is always written.
write_cloud_init_files_always_meta(dir, user_data, meta_data, io1, io2) ==
    IF ~dir.exists THEN Wrote(Raises("CloudInitError"), dir, <<>>)
    ELSE LET d1 == write_text(dir, "user-data", user_data, io1)
         IN  IF io1 # "ok" THEN Wrote(Raises("OSError"), d1, <<"user-data">>)
             ELSE Wrote(IF io2 # "ok" THEN Raises("OSError") ELSE Returns(<<>>),
                        write_text(d1, "meta-data", meta_data, io2),
                        <<"user-data", "meta-data">>)

\* io1, io2: how the write of user-data and of meta-data end, if attempted.
write_cloud_init_files(dir, user_data, meta_data, io1, io2) ==
    IF ~dir.exists THEN Wrote(Raises("CloudInitError"), dir, <<>>)
    ELSE LET d1 == write_text(dir, "user-data", user_data, io1)
         IN  IF io1 # "ok" THEN Wrote(Raises("OSError"), d1, <<"user-data">>)
             ELSE IF meta_data = <<>> THEN Wrote(Returns(<<>>), d1, <<"user-data">>)
             ELSE Wrote(IF io2 # "ok" THEN Raises("OSError") ELSE Returns(<<>>),
                        write_text(d1, "meta-data", meta_data, io2),
                        <<"user-data", "meta-data">>)

\* A YAML source text: syntactically invalid, or a document whose root is a
\* mapping (its key: value lines in the order written), a sequence, a scalar
\* or nothing (an empty file, which loads as None).  Keys are numbered in
\* their sort order.
\* yaml.safe_load of a mapping: the dictionary; a key written twice keeps
\* its last value.
RECURSIVE load_items(_, _, _)
load_items(items, i, dict) ==
    IF i > Len(items) THEN dict
    ELSE load_items(items, i + 1,
            [k \in DOMAIN dict \cup {items[i][1]} |->
                IF k = items[i][1] THEN items[i][2] ELSE dict[k]])

EmptyDict == [k \in {} |-> 0]

yaml_safe_load(text) ==
    CASE text.kind = "invalid"  -> Raises("YAMLError")
      [] text.kind = "mapping"  -> Returns([type |-> "dict",
                                            dict |-> load_items(text.items, 1, EmptyDict)])
      [] text.kind = "sequence" -> Returns([type |-> "list", dict |-> EmptyDict])
      [] text.kind = "scalar"   -> Returns([type |-> "str", dict |-> EmptyDict])
      [] text.kind = "empty"    -> Returns([type |-> "NoneType", dict |-> EmptyDict])

\* yaml.dump(config, default_flow_style=False): one key: value line per key,
\* the keys sorted.
RECURSIVE dump_items(_, _)
dump_items(dict, keys) ==
    IF keys = {} THEN <<>>
    ELSE LET k == CHOOSE x \in keys : \A y \in keys : x <= y
         IN  <<<<k, dict[k]>>>> \o dump_items(dict, keys \ {k})

yaml_dump(dict) == [kind |-> "mapping", items |-> dump_items(dict, DOMAIN dict)]

\* load_cloud_config without the isinstance check: whatever loads is dumped.
load_cloud_config_without_type_check(source) ==
    IF ~source.exists THEN Raises("CloudInitError")
    ELSE IF source.is_dir THEN Raises("IsADirectoryError")
    ELSE LET config == yaml_safe_load(source.text)
         IN  IF config.raised = "YAMLError" THEN Raises("CloudInitError")
             ELSE Returns(yaml_dump(config.value.dict))

\* source: what open() finds at config_path: nothing (FileNotFoundError), a
\* directory (IsADirectoryError, which no except clause names), or a file.
load_cloud_config(source) ==
    IF ~source.exists THEN Raises("CloudInitError")
    ELSE IF source.is_dir THEN Raises("IsADirectoryError")
    ELSE LET config == yaml_safe_load(source.text)
         IN  IF config.raised = "YAMLError" THEN Raises("CloudInitError")
             ELSE IF config.value.type # "dict" THEN Raises("CloudInitError")
             ELSE Returns(yaml_dump(config.value.dict))

----------------------------------------------------------------------------
(* The values the variables a specification does not use are left at.      *)

NoQuery == [cmd |-> "none", returncode |-> 0, stdout |-> Unparseable]
FileNames == {"user-data", "meta-data", "config.txt"}
NoDir   == [exists |-> FALSE, files |-> [n \in FileNames |-> Absent]]
NoOpts  == [disk_path |-> <<>>, confirm |-> FALSE, no_eject |-> FALSE,
            cloud_init_file |-> FALSE]
NoSelection == Disk(<<>>, "", 0, "", FALSE, FALSE)

BurnIdle == /\ pc = "idle" /\ opts = NoOpts /\ disk = NoSelection
            /\ cmds = <<>> /\ answered = <<>>

----------------------------------------------------------------------------
(* The disk inventory: list_external_disks and get_disk_info, each called  *)
(* once on what diskutil answers.                                          *)

Ids == {<<>>, <<"disk", "4">>, <<"disk", "5">>}

Labels == {"", "bootfs", "rootfs"}
MountPoints == {<<>>, <<"/">>, <<"/", "Volumes", "bootfs">>, <<"/", "Volumes", "data">>}
Partitions == [VolumeName : Labels, MountPoint : MountPoints]

\* The attributes of a disk entry; Content and Size are reported together.
Attrs == {[DeviceIdentifier |-> id, Content |-> c[1], Size |-> c[2],
           Removable |-> r, Ejectable |-> e] :
              id \in Ids, c \in {<<"", 0>>, <<"MS-DOS", 32>>}, r \in BOOLEAN, e \in BOOLEAN}

\* An entry as diskutil writes it (the attributes on the entry itself) and
\* as the tests build it (the attributes under "Disk").
FlatEntry(a, parts) ==
    [Disk |-> NoDisk, DeviceIdentifier |-> a.DeviceIdentifier, Content |-> a.Content,
     Size |-> a.Size, Removable |-> a.Removable, Ejectable |-> a.Ejectable,
     Partitions |-> parts]
NestedEntry(a, parts) ==
    [Disk |-> [DeviceIdentifier |-> a.DeviceIdentifier, Content |-> a.Content,
               Size |-> a.Size, Removable |-> a.Removable, Ejectable |-> a.Ejectable,
               empty |-> FALSE],
     DeviceIdentifier |-> <<>>, Content |-> "", Size |-> 0,
     Removable |-> FALSE, Ejectable |-> FALSE, Partitions |-> parts]

Unlabelled == [VolumeName |-> "", MountPoint |-> <<>>]

\* Entries of the multi-disk responses: every identifier, with neither flag
\* or one of them, with no partition or an unmounted one; the attributes on
\* the entry itself and, for disk4, also under "Disk".
ListAttrs == {a \in Attrs : /\ a.Content = "" <=> a.DeviceIdentifier = <<>>
                            /\ ~(a.Removable /\ a.Ejectable)}
ListEntries ==
    {FlatEntry(a, parts) : a \in ListAttrs, parts \in {<<>>, <<Unlabelled>>}}
    \cup {NestedEntry(a, parts) :
             a \in {b \in ListAttrs : b.DeviceIdentifier = <<"disk", "4">>},
             parts \in {<<>>, <<Unlabelled>>}}

\* Entries of the one-disk responses: every partition table up to MaxParts.
LabelAttrs == {a \in Attrs : a.DeviceIdentifier = <<"disk", "4">> /\ a.Content # ""
                              /\ a.Removable = a.Ejectable}
LabelEntries == {NestedEntry(a, parts) : a \in LabelAttrs, parts \in SeqsUpTo(Partitions, MaxParts)}

ListOk(entries) ==
    [cmd |-> "list", returncode |-> 0, stdout |-> Plist([AllDisksAndPartitions |-> entries])]
Failed(cmd)  == [cmd |-> cmd, returncode |-> 1, stdout |-> Unparseable]
Garbled(cmd) == [cmd |-> cmd, returncode |-> 0, stdout |-> Unparseable]

ListQueries ==
    {Failed("list"), Garbled("list")}
    \cup {ListOk(es) : es \in SeqsUpTo(ListEntries, MaxDisks)}
    \cup {ListOk(<<e>>) : e \in LabelEntries}

InfoDocs == {[DeviceIdentifier |-> id, VolumeName |-> v, Size |-> c[2], Content |-> c[1],
              Removable |-> r, Ejectable |-> r, MountPoint |-> <<>>] :
                 id \in {<<"disk", "4">>, <<"disk", "4", "s1">>},
                 v \in {"", "NO NAME", "Untitled"},
                 c \in {<<"", 0>>, <<"MS-DOS", 32>>}, r \in BOOLEAN}
InfoOk(doc) == [cmd |-> "info", returncode |-> 0, stdout |-> Plist(doc)]
InfoQueries == {Failed("info"), Garbled("info")} \cup {InfoOk(d) : d \in InfoDocs}

\* The pairs of answers tried: every list answer beside one info answer, and
\* every info answer beside the list answers of one unlabelled disk.
SomeInfo == InfoOk([DeviceIdentifier |-> <<"disk", "4">>, VolumeName |-> "", Size |-> 32,
                    Content |-> "MS-DOS", Removable |-> TRUE, Ejectable |-> TRUE,
                    MountPoint |-> <<>>])
SomeLists == {ListOk(<<NestedEntry(a, parts)>>) :
                 a \in LabelAttrs, parts \in {<<>>, <<Unlabelled>>}}

DetectorInit ==
    /\ query \in {[list |-> l, info |-> SomeInfo] : l \in ListQueries}
                 \cup {[list |-> l, info |-> i] : l \in SomeLists, i \in InfoQueries}
    /\ ret = [list |-> NotCalled, info |-> NotCalled]
    /\ fs = NoDir
    /\ BurnIdle

ListCall ==
    /\ pc = "idle"
    /\ ret.list = NotCalled
    /\ ret' = [ret EXCEPT !.list = list_external_disks(query.list)]
    /\ UNCHANGED <<query, fs, pc, opts, disk, cmds, answered>>

InfoCall ==
    /\ pc = "idle"
    /\ ret.info = NotCalled
    /\ ret' = [ret EXCEPT !.info = get_disk_info(query.info)]
    /\ UNCHANGED <<query, fs, pc, opts, disk, cmds, answered>>

DetectorNext == ListCall \/ InfoCall

SpecDetector == DetectorInit /\ [][DetectorNext]_vars

----------------------------------------------------------------------------
(* Claims about the disk inventory.                                        *)

QueryFailed(q) == q.returncode # 0 \/ ~q.stdout.parseable
ListReturned == ret.list # NotCalled /\ ~QueryFailed(query.list)
InfoReturned == ret.info # NotCalled /\ ~QueryFailed(query.info)
Listing == query.list.stdout.doc.AllDisksAndPartitions

\* The dictionary an entry's attributes are written in.
AttrsOf(e) == IF e.Disk.empty THEN e ELSE e.Disk
Wanted(e) == /\ AttrsOf(e).DeviceIdentifier # <<>>
             /\ AttrsOf(e).Removable \/ AttrsOf(e).Ejectable \/ Len(e.Partitions) >= 1
HasLabel(parts) == \E i \in 1..Len(parts) : parts[i].VolumeName # ""
FirstLabel(parts) ==
    LET i == CHOOSE n \in 1..Len(parts) :
                 /\ parts[n].VolumeName # ""
                 /\ \A m \in 1..(n - 1) : parts[m].VolumeName = ""
    IN  parts[i].VolumeName
\* No partition has a label, and no mount path has a last part to fall back on.
Unresolved(parts) ==
    \A i \in 1..Len(parts) : parts[i].VolumeName = "" /\ PathName(parts[i].MountPoint) = ""

\* C3: whenever the OS query fails (non-zero exit, or output that is no
\* property list), list_external_disks and get_disk_info raise
\* DiskDetectorError and return no Disk.
C3_QueryFailureRaisesDiskDetectorError ==
    /\ (ret.list # NotCalled /\ QueryFailed(query.list))
           => ret.list.raised = "DiskDetectorError"
    /\ (ret.info # NotCalled /\ QueryFailed(query.info))
           => ret.info.raised = "DiskDetectorError"

\* C4: the Disk of an entry that has a partition with a non-empty volume
\* label carries the first such label in partition order.
C4_LabelIsFirstNonEmptyLabel ==
    ListReturned =>
        LET kept == SelectSeq(Listing, Wanted)
        IN  \A i \in 1..Len(kept) :
                HasLabel(kept[i].Partitions)
                    => ret.list.value[i].volume_name = FirstLabel(kept[i].Partitions)

\* C5: list_external_disks returns, in the order of the response, exactly
\* the entries that have a device identifier and are removable or ejectable
\* or have a partition; the others are skipped without an error.
C5_ListsExactlyTheCandidates ==
    ListReturned =>
        /\ ret.list.raised = "None"
        /\ LET kept == SelectSeq(Listing, Wanted)
           IN  /\ Len(ret.list.value) = Len(kept)
               /\ \A i \in 1..Len(kept) :
                      /\ ret.list.value[i].device_path
                             = <<"/dev/">> \o AttrsOf(kept[i]).DeviceIdentifier
                      /\ ret.list.value[i].is_removable = AttrsOf(kept[i]).Removable
                      /\ ret.list.value[i].is_ejectable = AttrsOf(kept[i]).Ejectable

\* A response of two entries with identifiers and neither flag: the first is
\* kept for its unmounted partition, the second, with none, is dropped.
C5_Witness ==
    /\ ListReturned
    /\ Len(Listing) = 2
    /\ \A i \in 1..2 : /\ AttrsOf(Listing[i]).DeviceIdentifier # <<>>
                       /\ ~AttrsOf(Listing[i]).Removable
                       /\ ~AttrsOf(Listing[i]).Ejectable
    /\ Listing[1].Partitions = <<Unlabelled>>
    /\ Listing[2].Partitions = <<>>
    /\ Len(ret.list.value) = 1
    /\ ret.list.value[1].device_path = <<"/dev/">> \o AttrsOf(Listing[1]).DeviceIdentifier

\* C8: get_disk_info gives the label "Untitled" to a device whose volume
\* name is empty or absent, while list_external_disks leaves the label of an
\* entry it cannot resolve empty and never makes it "Untitled".
C8_UntitledOnlyFromGetDiskInfo ==
    /\ (InfoReturned /\ query.info.stdout.doc.VolumeName = "")
           => (ret.info.raised = "None" /\ ret.info.value.volume_name = "Untitled")
    /\ ListReturned =>
           LET kept == SelectSeq(Listing, Wanted)
           IN  \A i \in 1..Len(kept) :
                   /\ Unresolved(kept[i].Partitions) => ret.list.value[i].volume_name = ""
                   /\ ret.list.value[i].volume_name # "Untitled"

\* Both calls made: an unnamed device from get_disk_info, and a listed disk
\* whose only partition has neither label nor mount point.
C8_Witness ==
    /\ InfoReturned /\ query.info.stdout.doc.VolumeName = ""
    /\ ret.info.value.volume_name = "Untitled"
    /\ ListReturned
    /\ Len(Listing) = 1 /\ Listing[1].Partitions = <<Unlabelled>>
    /\ Len(ret.list.value) = 1 /\ ret.list.value[1].volume_name = ""

----------------------------------------------------------------------------
(* get_boot_partition, called once on what "diskutil list -plist <device>"  *)
(* answers.                                                                *)

ContentTags == FatFamily \cup {"", "Linux", "Apple_APFS", "fat32"}

\* A partition table: the contents in table order, the identifiers numbered.
Table(disk_id, contents) ==
    [Partitions |-> [j \in 1..Len(contents) |->
                        [Content |-> contents[j], DeviceIdentifier |-> disk_id \o <<"s", Numeral(j)>>]]]

BootOk(entries) ==
    [cmd |-> "boot", returncode |-> 0, stdout |-> Plist([AllDisksAndPartitions |-> entries])]

\* One disk with every table up to MaxParts; several disks with the tables
\* over two contents.
BootQueries ==
    {Failed("boot"), Garbled("boot")}
    \cup {BootOk(<<Table(<<"disk", "4">>, cs)>>) : cs \in SeqsUpTo(ContentTags, MaxParts)}
    \cup {BootOk([i \in 1..Len(ts) |-> Table(<<"disk", Numeral(3 + i)>>, ts[i])]) :
             ts \in SeqsUpTo(SeqsUpTo({"Linux", "Windows_FAT_32"}, MaxParts), MaxDisks)}

BootInit ==
    /\ query \in BootQueries
    /\ ret = NotCalled
    /\ fs = NoDir
    /\ BurnIdle

BootCall ==
    /\ pc = "idle"
    /\ ret = NotCalled
    /\ ret' = get_boot_partition(query)
    /\ UNCHANGED <<query, fs, pc, opts, disk, cmds, answered>>

BootNext == BootCall

SpecBoot == BootInit /\ [][BootNext]_vars

\* The partitions of a response, in table order, disk after disk.
RECURSIVE AllPartitions(_, _)
AllPartitions(entries, i) ==
    IF i > Len(entries) THEN <<>>
    ELSE entries[i].Partitions \o AllPartitions(entries, i + 1)

IsFat(p) == p.Content \in {"DOS", "FAT32", "msdos", "Windows_FAT_32"}

----------------------------------------------------------------------------
(* load_cloud_config, called once on a configuration source.               *)

Keys   == {1, 2}
Values == {"a", "b"}

Texts == {[kind |-> k, items |-> <<>>] : k \in {"invalid", "sequence", "scalar", "empty"}}
         \cup {[kind |-> "mapping", items |-> it] : it \in SeqsUpTo(Keys \X Values, MaxItems)}

Missing   == [exists |-> FALSE, is_dir |-> FALSE, text |-> [kind |-> "empty", items |-> <<>>]]
Directory == [exists |-> TRUE, is_dir |-> TRUE, text |-> [kind |-> "empty", items |-> <<>>]]
Sources == {Missing, Directory}
           \cup {[exists |-> TRUE, is_dir |-> FALSE, text |-> t] : t \in Texts}

LoadInit ==
    /\ query \in Sources
    /\ ret = NotCalled
    /\ fs = NoDir
    /\ BurnIdle

LoadCall ==
    /\ pc = "idle"
    /\ ret = NotCalled
    /\ ret' = load_cloud_config(query)
    /\ UNCHANGED <<query, fs, pc, opts, disk, cmds, answered>>

LoadNext == LoadCall

SpecLoad == LoadInit /\ [][LoadNext]_vars

\* C10: load_cloud_config returns a document only for a source that exists,
\* parses and has a mapping at its root; a missing source, an invalid
\* document and a document whose root is a list, a scalar or null raise
\* CloudInitError.
C10_OnlyMappingsLoad ==
    ret # NotCalled =>
        /\ ret.raised = "None"
               => (query.exists /\ ~query.is_dir /\ query.text.kind = "mapping")
        /\ (~query.exists
            \/ (~query.is_dir /\ query.text.kind \in {"invalid", "sequence", "scalar", "empty"}))
               => ret = Raises("CloudInitError")
        /\ (query.exists /\ ~query.is_dir /\ query.text.kind = "mapping")
               => (ret.raised = "None" /\ ret.value.kind = "mapping")

\* A document that parses and has a list at its root is refused.
C10_Witness ==
    /\ ret = Raises("CloudInitError")
    /\ query.exists /\ ~query.is_dir /\ query.text.kind = "sequence"

----------------------------------------------------------------------------
(* The image writer: unmount_disk, burn_image and eject_disk, called in    *)
(* any order.  query is the call just made, ret what it did, and cmds      *)
(* every OS command run so far.                                            *)

Devices == {<<"/dev/", "disk", "4">>, <<"/dev/", "r", "disk", "4">>,
            <<"/dev/", "disk", "4", "s", "1">>}

WriterInit ==
    /\ query = NoQuery
    /\ ret = Did(NotCalled, <<>>)
    /\ fs = NoDir
    /\ BurnIdle

UnmountCall ==
    \E device \in Devices, returncode \in {0, 1} :
        LET did == unmount_disk(device, returncode)
        IN  /\ pc = "idle"
            /\ Len(cmds) < MaxCmds
            /\ query' = [cmd |-> "unmount_disk", image_exists |-> FALSE,
                         device_path |-> device, returncode |-> returncode]
            /\ ret' = did
            /\ cmds' = cmds \o did.cmds
            /\ UNCHANGED <<fs, pc, opts, disk, answered>>

BurnImageCall ==
    \E image_exists \in BOOLEAN, device \in Devices, returncode \in {0, 1} :
        LET did == burn_image(image_exists, device, returncode)
        IN  /\ pc = "idle"
            /\ Len(cmds) < MaxCmds
            /\ query' = [cmd |-> "burn_image", image_exists |-> image_exists,
                         device_path |-> device, returncode |-> returncode]
            /\ ret' = did
            /\ cmds' = cmds \o did.cmds
            /\ UNCHANGED <<fs, pc, opts, disk, answered>>

EjectCall ==
    \E device \in Devices, returncode \in {0, 1} :
        LET did == eject_disk(device, returncode)
        IN  /\ pc = "idle"
            /\ Len(cmds) < MaxCmds
            /\ query' = [cmd |-> "eject_disk", image_exists |-> FALSE,
                         device_path |-> device, returncode |-> returncode]
            /\ ret' = did
            /\ cmds' = cmds \o did.cmds
            /\ UNCHANGED <<fs, pc, opts, disk, answered>>

WriterNext == UnmountCall \/ BurnImageCall \/ EjectCall

SpecWriter == WriterInit /\ [][WriterNext]_vars

\* C7: burn_image on an image path that does not exist raises
\* DiskWriterError, whatever the device, and runs no OS command in that
\* call: the commands run so far are what they were before it.
C7_MissingImageRunsNothing ==
    [][(query'.cmd = "burn_image" /\ ~query'.image_exists)
          => (ret'.ret = Raises("DiskWriterError") /\ ret'.cmds = <<>> /\ cmds' = cmds)]_vars

\* burn_image on a missing image after an earlier command: that command is
\* still the only one run.
C7_Witness ==
    /\ query.cmd = "burn_image" /\ ~query.image_exists
    /\ ret.ret = Raises("DiskWriterError")
    /\ Len(cmds) = 1

----------------------------------------------------------------------------
(* write_cloud_init_files, called again and again on a mount directory.    *)
(* query is the call just made and ret what it did.                        *)

UserDatas == {<<"hostname: pi">>, <<"users: []">>}
MetaDatas == {<<>>, <<"instance-id: pi">>}
OldFile   == File(<<"old">>)
IoOutcomes == {"ok", "open_fails", "write_fails"}

InjectInit ==
    /\ fs \in {NoDir}
              \cup {[exists |-> TRUE, files |-> f] : f \in [FileNames -> {Absent, OldFile}]}
    /\ query = NoQuery
    /\ ret = Wrote(NotCalled, fs, <<>>)
    /\ BurnIdle

WriteCall ==
    \E user_data \in UserDatas, meta_data \in MetaDatas,
       io1 \in IoOutcomes, io2 \in IoOutcomes :
        LET did == write_cloud_init_files(fs, user_data, meta_data, io1, io2)
        IN  /\ pc = "idle"
            /\ query' = [cmd |-> "write_cloud_init_files", user_data |-> user_data,
                         meta_data |-> meta_data, io1 |-> io1, io2 |-> io2]
            /\ ret' = did
            /\ fs' = did.fs
            /\ UNCHANGED <<pc, opts, disk, cmds, answered>>

InjectNext == WriteCall

SpecInject == InjectInit /\ [][InjectNext]_vars

Opened(name) == \E i \in 1..Len(ret'.opened) : ret'.opened[i] = name

\* C9: write_cloud_init_files changes only the files it is meant to.  With
\* no mount directory it raises CloudInitError and opens no file; otherwise
\* user-data becomes the primary document; meta-data is opened only for a
\* non-empty secondary document and is otherwise left as it was; when the
\* second write fails, user-data keeps what the first wrote; no other file
\* changes.
C9_WritesOnlyItsFiles ==
    [][query'.cmd = "write_cloud_init_files" =>
          /\ fs'.exists = fs.exists
          /\ fs'.files["config.txt"] = fs.files["config.txt"]
          /\ ~fs.exists =>
                 (ret'.ret = Raises("CloudInitError") /\ ret'.opened = <<>> /\ fs' = fs)
          /\ (fs.exists /\ query'.io1 = "ok") =>
                 fs'.files["user-data"] = File(query'.user_data)
          /\ (fs.exists /\ query'.meta_data = <<>>) =>
                 (~Opened("meta-data") /\ fs'.files["meta-data"] = fs.files["meta-data"])
          /\ (fs.exists /\ query'.io1 = "ok" /\ query'.meta_data # <<>>) =>
                 /\ Opened("meta-data")
                 /\ query'.io2 = "ok" =>
                        (ret'.ret.raised = "None"
                         /\ fs'.files["meta-data"] = File(query'.meta_data))
                 /\ query'.io2 # "ok" =>
                        (ret'.ret.raised = "OSError"
                         /\ fs'.files["user-data"] = File(query'.user_data))
      ]_vars

\* The second write failed on an existing mount directory that held an old
\* user-data: user-data is the new document.
C9_Witness ==
    /\ query.cmd = "write_cloud_init_files"
    /\ fs.exists
    /\ query.io1 = "ok" /\ query.meta_data # <<>> /\ query.io2 = "open_fails"
    /\ ret.ret.raised = "OSError"
    /\ fs.files["user-data"] = File(query.user_data)
    /\ fs.files["meta-data"] = OldFile

----------------------------------------------------------------------------
(* cli.py: the burn command, one step per blocking stage.                  *)

SystemExit(code) == [raised |-> "SystemExit", value |-> <<code>>]

\* str.lower, letter by letter.
LowerChar(c) ==
    CASE c = "Y" -> "y" [] c = "E" -> "e" [] c = "S" -> "s"
      [] c = "N" -> "n" [] c = "O" -> "o" [] OTHER -> c
lower(text) == [i \in 1..Len(text) |-> LowerChar(text[i])]

\* select_disk (lines 24-60).  run: what diskutil answers; choice: the
\* number the user ends up entering at the prompt, which Prompt.ask and the
\* loop around it only accept when it names a listed disk.
select_disk(disk_path, run, choice) ==
    IF disk_path # <<>> THEN get_disk_info(run)
    ELSE LET disks == list_external_disks(run)
         IN  IF disks.raised # "None" THEN disks
             ELSE IF disks.value = <<>> THEN SystemExit(1)
             ELSE IF Len(disks.value) = 1 THEN Returns(disks.value[1])
             ELSE Returns(disks.value[choice])

\* The body of "if cloud_init_file:" inside its try (lines 157-164): the
\* exception that leaves it (or none), the commands run, the mount
\* directory afterwards.
add_cloud_init(dir, device_path, boot_run, mount_returncode, info_run, source, io1) ==
    LET boot_part == get_boot_partition(boot_run)
    IN  IF boot_part.raised # "None" THEN [ret |-> boot_part, cmds |-> <<>>, fs |-> dir]
        ELSE IF boot_part.value = <<>> THEN [ret |-> Returns(<<>>), cmds |-> <<>>, fs |-> dir]
        ELSE LET mount_point == mount_partition(boot_part.value, mount_returncode, info_run)
             IN  IF mount_point.ret.raised # "None"
                 THEN [ret |-> mount_point.ret, cmds |-> mount_point.cmds, fs |-> dir]
                 ELSE LET user_data == load_cloud_config(source)
                      IN  IF user_data.raised # "None"
                          THEN [ret |-> user_data, cmds |-> mount_point.cmds, fs |-> dir]
                          ELSE LET w == write_cloud_init_files(dir, user_data.value,
                                                               <<>>, io1, "ok")
                               IN  [ret |-> w.ret, cmds |-> mount_point.cmds, fs |-> w.fs]

\* What the burn command is run on.
BurnDisk4 == NestedEntry([DeviceIdentifier |-> <<"disk", "4">>, Content |-> "MS-DOS",
                          Size |-> 32, Removable |-> TRUE, Ejectable |-> TRUE],
                         <<[VolumeName |-> "NO NAME", MountPoint |-> <<>>]>>)
BurnDisk5 == FlatEntry([DeviceIdentifier |-> <<"disk", "5">>, Content |-> "",
                        Size |-> 0, Removable |-> FALSE, Ejectable |-> TRUE], <<>>)
BurnSelectRuns(disk_path) ==
    IF disk_path # <<>>
    THEN {Failed("info"), Garbled("info"), SomeInfo}
    ELSE {Failed("list"), Garbled("list"), ListOk(<<>>), ListOk(<<BurnDisk4>>),
          ListOk(<<BurnDisk4, BurnDisk5>>)}
BurnBootRuns ==
    {Failed("boot"), Garbled("boot"),
     BootOk(<<Table(<<"disk", "4">>, <<"Linux">>)>>),
     BootOk(<<Table(<<"disk", "4">>, <<"Windows_FAT_32", "Linux">>)>>)}
BurnInfoRuns ==
    {Failed("info"), Garbled("info")}
    \cup {InfoOk([DeviceIdentifier |-> <<"disk", "4", "s", "1">>, VolumeName |-> "bootfs",
                  Size |-> 1, Content |-> "Windows_FAT_32", Removable |-> TRUE,
                  Ejectable |-> TRUE, MountPoint |-> mp]) :
             mp \in {<<>>, <<"/", "Volumes", "bootfs">>}}
BurnSources ==
    {Directory,
     [exists |-> TRUE, is_dir |-> FALSE, text |-> [kind |-> "invalid", items |-> <<>>]],
     [exists |-> TRUE, is_dir |-> FALSE, text |-> [kind |-> "sequence", items |-> <<>>]],
     [exists |-> TRUE, is_dir |-> FALSE,
      text |-> [kind |-> "mapping", items |-> <<<<2, "b">>, <<1, "a">>>>]]}
Answers == {<<>>, <<"y">>, <<"n", "o">>, <<"y", "e", "s">>, <<"Y", "E", "S">>,
            <<"Y", "e", "s">>}

BurnInit ==
    /\ pc = "select"
    /\ opts \in [disk_path : {<<>>, <<"/dev/", "disk", "4">>}, confirm : BOOLEAN,
                 no_eject : BOOLEAN, cloud_init_file : BOOLEAN]
    /\ fs \in {NoDir, [exists |-> TRUE, files |-> [n \in FileNames |-> Absent]],
               [exists |-> TRUE, files |-> [n \in FileNames |-> OldFile]]}
    /\ disk = NoSelection
    /\ cmds = <<>>
    /\ answered = <<>>
    /\ query = NoQuery
    /\ ret = NotCalled

\* lines 119-123: select_disk; DiskDetectorError ends the run with status
\* 1, like the sys.exit(1) of select_disk itself; anything else escapes.
SelectDisk ==
    /\ pc = "select"
    /\ \E run \in BurnSelectRuns(opts.disk_path), choice \in {1, 2} :
         LET r == select_disk(opts.disk_path, run, choice)
             prompted == /\ opts.disk_path = <<>> /\ ~QueryFailed(run)
                         /\ Len(list_external_disks(run).value) > 1
         IN  /\ IF prompted THEN choice <= Len(list_external_disks(run).value)
                            ELSE choice = 1
             /\ query' = run
             /\ IF r.raised = "None"
                THEN pc' = "confirm" /\ disk' = r.value /\ ret' = ret
                ELSE /\ pc' = "done" /\ disk' = disk
                     /\ ret' = IF r.raised = "DiskDetectorError" THEN SystemExit(1) ELSE r
    /\ UNCHANGED <<fs, opts, cmds, answered>>

\* lines 132-136
Confirm ==
    /\ pc = "confirm"
    /\ IF opts.confirm
       THEN pc' = "unmount" /\ UNCHANGED <<answered, ret>>
       ELSE \E confirm_text \in Answers :
                /\ answered' = confirm_text
                /\ IF lower(confirm_text) # <<"y", "e", "s">>
                   THEN pc' = "done" /\ ret' = SystemExit(0)
                   ELSE pc' = "unmount" /\ ret' = ret
    /\ UNCHANGED <<query, fs, opts, disk, cmds>>

\* lines 138-143 without the sys.exit(1): a failed unmount is only reported.
UnmountIgnoringFailure ==
    /\ pc = "unmount"
    /\ \E returncode \in {0, 1} :
         LET did == unmount_disk(disk.device_path, returncode)
         IN  /\ cmds' = cmds \o did.cmds
             /\ pc' = "burn" /\ ret' = ret
    /\ UNCHANGED <<query, fs, opts, disk, answered>>

\* lines 138-143
Unmount ==
    /\ pc = "unmount"
    /\ \E returncode \in {0, 1} :
         LET did == unmount_disk(disk.device_path, returncode)
         IN  /\ cmds' = cmds \o did.cmds
             /\ IF did.ret.raised = "DiskWriterError"
                THEN pc' = "done" /\ ret' = SystemExit(1)
                ELSE pc' = "burn" /\ ret' = ret
    /\ UNCHANGED <<query, fs, opts, disk, answered>>

\* lines 145-152; the image click found at start-up may be gone by now.
BurnImage ==
    /\ pc = "burn"
    /\ \E image_exists \in BOOLEAN, returncode \in {0, 1} :
         LET did == burn_image(image_exists, disk.device_path, returncode)
         IN  /\ cmds' = cmds \o did.cmds
             /\ IF did.ret.raised = "DiskWriterError"
                THEN pc' = "done" /\ ret' = SystemExit(1)
                ELSE pc' = "cloud_init" /\ ret' = ret
    /\ UNCHANGED <<query, fs, opts, disk, answered>>

\* lines 154-166: CloudInitError is reported and the run goes on; any other
\* exception leaves burn.
CloudInit ==
    /\ pc = "cloud_init"
    /\ IF ~opts.cloud_init_file
       THEN pc' = "eject" /\ UNCHANGED <<fs, cmds, ret>>
       ELSE \E boot_run \in BurnBootRuns, mount_returncode \in {0, 1},
               info_run \in BurnInfoRuns, source \in BurnSources, io1 \in IoOutcomes :
                LET did == add_cloud_init(fs, disk.device_path, boot_run,
                                          mount_returncode, info_run, source, io1)
                IN  /\ cmds' = cmds \o did.cmds
                    /\ fs' = did.fs
                    /\ IF did.ret.raised \in {"None", "CloudInitError"}
                       THEN pc' = "eject" /\ ret' = ret
                       ELSE pc' = "done" /\ ret' = did.ret
    /\ UNCHANGED <<query, opts, disk, answered>>

\* lines 168-171: eject_disk's DiskWriterError is not caught.
Eject ==
    /\ pc = "eject"
    /\ IF opts.no_eject
       THEN pc' = "done" /\ ret' = Returns(<<>>) /\ cmds' = cmds
       ELSE \E returncode \in {0, 1} :
                LET did == eject_disk(disk.device_path, returncode)
                IN  /\ cmds' = cmds \o did.cmds
                    /\ pc' = "done"
                    /\ ret' = did.ret
    /\ UNCHANGED <<query, fs, opts, disk, answered>>

BurnNext == SelectDisk \/ Confirm \/ Unmount \/ BurnImage \/ CloudInit \/ Eject

SpecBurn == BurnInit /\ [][BurnNext]_vars

----------------------------------------------------------------------------
(* Claims about the burn command.                                          *)

Ran(program) == {i \in 1..Len(cmds) : cmds[i].program = program}

\* The user typed yes, in any letter case, or the command had --confirm.
TypedYes == /\ Len(answered) = 3
            /\ answered[1] \in {"y", "Y"} /\ answered[2] \in {"e", "E"}
            /\ answered[3] \in {"s", "S"}
UserConfirmed == opts.confirm \/ TypedYes

\* The raw node dd is given for a block device: the same path, or the path
\* with the r of /dev/rdiskN put in.
RawNodeOf(raw, device_path) ==
    raw = device_path \/ raw = <<"/dev/", "r">> \o Tail(device_path)

\* C1: in every run of burn, dd is run on the target only after the user
\* confirmed (answered yes or gave --confirm) and after unmountDisk was run
\* on that same device and exited zero; a refused confirmation or a failed
\* unmount means no dd in that run.
C1_CopyOnlyAfterConfirmAndUnmount ==
    /\ \A i \in Ran("dd") :
           /\ UserConfirmed
           /\ \E j \in Ran("diskutil unmountDisk") :
                  /\ j < i
                  /\ cmds[j].returncode = 0
                  /\ cmds[j].arg = disk.device_path
                  /\ RawNodeOf(cmds[i].arg, cmds[j].arg)
    /\ ~UserConfirmed => Ran("dd") = {}
    /\ (\E j \in Ran("diskutil unmountDisk") : cmds[j].returncode # 0) => Ran("dd") = {}

\* A run without --confirm in which the user typed YES: unmountDisk of
\* /dev/disk4 exited zero and dd was then run on /dev/rdisk4.
C1_Witness ==
    /\ ~opts.confirm /\ answered = <<"Y", "E", "S">>
    /\ Len(cmds) >= 2
    /\ cmds[1] = Command("diskutil unmountDisk", <<"/dev/", "disk", "4">>, 0)
    /\ cmds[2].program = "dd" /\ cmds[2].arg = <<"/dev/", "r", "disk", "4">>

\* C2: once the image is written, a failure of a later optional step
\* (finding or mounting the boot partition, loading the configuration,
\* writing the files) does not abort the run: a run that has ended without
\* --no-eject has run the eject.
C2_OptionalFailureStillEjects ==
    (/\ pc = "done"
     /\ \E i \in Ran("dd") : cmds[i].returncode = 0
     /\ ~opts.no_eject)
        => Ran("diskutil eject") # {}

====
